---- MODULE Spec2Model ----
(***************************************************************************)
(* State-machine model of the trading-strategies repository:               *)
(*   - app/backtest/engine.py        run_backtest (the bar loop, the       *)
(*                                   force-close, the metrics)             *)
(*   - app/strategies/volatility_contraction.py  generate_signals          *)
(*   - app/strategies/mean_reversion.py          generate_signals          *)
(*   - app/strategies/base.py, mean_reversion.py  set_parameters           *)
(*   - app/strategies/__init__.py    register_strategy, get_strategy       *)
(*                                                                         *)
(* Prices are integers in units of 0.00005 (half a pip of a 4-digit pair). *)
(* Money (capital, pnl, equity) is an exact fraction <<num, den>> with     *)
(* den > 0 and gcd(num, den) = 1.                                          *)
(***************************************************************************)
EXTENDS Integers, Sequences, FiniteSets, TLC

\* ------------------------------------------------------------------------
\* Bounds of the model
\* ------------------------------------------------------------------------

\* Longest price series handed to run_backtest.
MaxBars == 3

\* Longest price series handed to generate_signals.
MaxRows == 4

\* Most entries in a mapping handed to set_parameters.
MaxParams == 2

\* Longest price series handed to the mean-reversion generate_signals.
MaxMRRows == 2

\* ------------------------------------------------------------------------
\* Exact arithmetic standing for Python floats
\* ------------------------------------------------------------------------

Abs(x) == IF x < 0 THEN -x ELSE x

RECURSIVE GCD(_, _)
GCD(a, b) == IF b = 0 THEN a ELSE GCD(b, a % b)

\* The fraction n/d in lowest terms with a positive denominator (d # 0).
Frac(n, d) ==
    LET g == GCD(Abs(n), Abs(d))
        s == IF d < 0 THEN -1 ELSE 1
    IN  <<(s * n) \div g, (s * d) \div g>>

FromInt(k) == <<k, 1>>
RAdd(a, b) == Frac(a[1] * b[2] + b[1] * a[2], a[2] * b[2])
RSub(a, b) == Frac(a[1] * b[2] - b[1] * a[2], a[2] * b[2])
RMul(a, b) == Frac(a[1] * b[1], a[2] * b[2])
\* a / b for b # 0
RDiv(a, b) == Frac(a[1] * b[2], a[2] * b[1])
RLess(a, b) == a[1] * b[2] < b[1] * a[2]
RIsZero(a) == a[1] = 0
RZero == FromInt(0)

\* ------------------------------------------------------------------------
\* Inputs of run_backtest
\* ------------------------------------------------------------------------

\* One pip (0.0001, engine.py line 73) in price units of 0.00005.
PipSize == 2

\* A row of the price frame as the loop reads it: atr_na is pd.isna(atr).
Closes == {10, 12}
Wicks == {0, 6}
ATRValues == {0, 2}
Signals == {-1, 0, 1}

\* atr: NaN (atr_na, the value then unused) or a number.
AtrCells == {[na |-> TRUE, v |-> 0]} \cup {[na |-> FALSE, v |-> a] : a \in ATRValues}

Bars ==
    { [atr_na |-> a.na, atr |-> a.v, low |-> c - d, high |-> c + u,
       close |-> c, signal |-> s] :
        a \in AtrCells, c \in Closes, d \in Wicks, u \in Wicks, s \in Signals }

\* The row held before any row was read from an empty frame.
NoBar == [none |-> TRUE]

\* The columns run_backtest's docstring asks for, and atr, which is optional.
RequiredColumns == {"open", "high", "low", "close", "signal"}
AllColumns == RequiredColumns \cup {"atr"}
WellFormedColumns == {RequiredColumns, AllColumns}

\* _compute_atr(df, period: int = 14)
AtrPeriod == 14

SpreadPips == {0, 1}
SlAtrMults == {0, 1}
TpAtrMults == {2}
RiskPcts == {<<2, 3>>}
InitialCapitals == {1000}

\* ------------------------------------------------------------------------
\* State
\* ------------------------------------------------------------------------

VARIABLES
    \* run_backtest's arguments
    spread_pips, sl_atr_mult, tp_atr_mult, risk_pct, initial_capital,
    n,              \* len(df)
    \* run_backtest's locals
    pc,             \* "loop" | "metrics" | "done"
    i,              \* the loop index: the next row to read
    bar,            \* the row read last (df.iloc[0] before the loop)
    n_signals,      \* how many rows up to and including that one have signal != 0
    capital, equity_curve, trades, open_trade,
    entry_capital,  \* (history) capital when open_trade was opened
    result,         \* the BacktestResult returned
    \* the frame objects of the call in progress
    frames,         \* the columns of the caller's frame and of the copy made of it
    df_obj,         \* the object the local name df is bound to: "caller" | "copy"
    \* VolatilityContractionStrategy.generate_signals
    vc_pc,          \* "idle" | "loop" | "done"
    vc_df,          \* the copied frame with its indicator, squeeze and signal columns
    vc_i,           \* the loop index (0-based, as in the source)
    in_squeeze,
    \* BaseStrategy.set_parameters / MeanReversionStrategy.set_parameters
    sp_pc,          \* "idle" | "loop" | "returned" | "raised"
    strategy,       \* the registry key of the strategy instance (self)
    attrs,          \* self's parameter attributes
    current,        \* current = self.get_parameters(), taken on entry
    params,         \* list(params.items()), in the dict's order
    sp_k,           \* how many items the loop has consumed
    \* MeanReversionStrategy.generate_signals
    mr_pc,          \* "idle" | "start" | "buy" | "sell" | "done"
    mr_df,          \* the rows of the frame with the columns computed for it
    \* the strategy registry
    rg_pc,          \* "idle" | "discover" | "lookup" | "returned" | "raised"
    registry,       \* _registry: key -> class
    name,           \* get_strategy's argument
    instance        \* the instance get_strategy returned

args == <<spread_pips, sl_atr_mult, tp_atr_mult, risk_pct, initial_capital, n>>
engine_vars ==
    <<args, pc, i, bar, n_signals, capital, equity_curve, trades, open_trade,
      entry_capital, result>>
frame_vars == <<frames, df_obj>>
vc_vars == <<vc_pc, vc_df, vc_i, in_squeeze>>
sp_vars == <<sp_pc, strategy, attrs, current, params, sp_k>>
mr_vars == <<mr_pc, mr_df>>
rg_vars == <<rg_pc, registry, name, instance>>
vars == <<engine_vars, frame_vars, vc_vars, sp_vars, mr_vars, rg_vars>>

\* open_trade: Trade | None
None == [none |-> TRUE]

\* BacktestResult() as constructed (dataclass defaults).
\* sharpe_ratio mean/std*sqrt(252) is held as its sign and its square.
NoSharpe == [sign |-> 0, sq |-> RZero]
BacktestResult ==
    [trades |-> <<>>, equity_curve |-> <<>>, win_rate |-> RZero,
     total_trades |-> 0, total_pnl |-> RZero, sharpe_ratio |-> NoSharpe,
     max_drawdown |-> RZero]

\* ------------------------------------------------------------------------
\* run_backtest: the bar loop
\* ------------------------------------------------------------------------

\* spread = spread_pips * 0.0001, in price units
Spread(pips) == pips * PipSize

\* (a variant that skips a row only when its atr is NaN)
AtrUnusableNaNOnly(b) == b.atr_na

\* if pd.isna(atr) or atr == 0: the row is skipped
AtrUnusable(b) == b.atr_na \/ b.atr = 0

\* Trade(entry_idx, entry_price, direction, stop_loss, take_profit)
Trade(idx, entry_price, direction, stop_loss, take_profit) ==
    [entry_idx |-> idx, entry_price |-> entry_price, direction |-> direction,
     stop_loss |-> stop_loss, take_profit |-> take_profit,
     exit_idx |-> -1, exit_price |-> 0, pnl |-> RZero, closed |-> FALSE]

\* (a variant that looks at the target before the stop)
ExitCheckTargetFirst(t, b, spread) ==
    IF t.direction = 1
    THEN IF b.high >= t.take_profit
         THEN [hit_sl |-> FALSE, hit_tp |-> TRUE,
               exit_price |-> t.take_profit - spread \div 2]
         ELSE IF b.low <= t.stop_loss
         THEN [hit_sl |-> TRUE, hit_tp |-> FALSE,
               exit_price |-> t.stop_loss - spread \div 2]
         ELSE [hit_sl |-> FALSE, hit_tp |-> FALSE, exit_price |-> 0]
    ELSE IF b.low <= t.take_profit
         THEN [hit_sl |-> FALSE, hit_tp |-> TRUE,
               exit_price |-> t.take_profit + spread \div 2]
         ELSE IF b.high >= t.stop_loss
         THEN [hit_sl |-> TRUE, hit_tp |-> FALSE,
               exit_price |-> t.stop_loss + spread \div 2]
         ELSE [hit_sl |-> FALSE, hit_tp |-> FALSE, exit_price |-> 0]

\* (a variant that exits at the level itself, without the half spread)
ExitCheckAtLevel(t, b, spread) ==
    IF t.direction = 1
    THEN IF b.low <= t.stop_loss
         THEN [hit_sl |-> TRUE, hit_tp |-> FALSE, exit_price |-> t.stop_loss]
         ELSE IF b.high >= t.take_profit
         THEN [hit_sl |-> FALSE, hit_tp |-> TRUE, exit_price |-> t.take_profit]
         ELSE [hit_sl |-> FALSE, hit_tp |-> FALSE, exit_price |-> 0]
    ELSE IF b.high >= t.stop_loss
         THEN [hit_sl |-> TRUE, hit_tp |-> FALSE, exit_price |-> t.stop_loss]
         ELSE IF b.low <= t.take_profit
         THEN [hit_sl |-> FALSE, hit_tp |-> TRUE, exit_price |-> t.take_profit]
         ELSE [hit_sl |-> FALSE, hit_tp |-> FALSE, exit_price |-> 0]

\* The SL/TP check of an open trade against a row: stop first, then target.
ExitCheck(t, b, spread) ==
    IF t.direction = 1
    THEN IF b.low <= t.stop_loss
         THEN [hit_sl |-> TRUE, hit_tp |-> FALSE,
               exit_price |-> t.stop_loss - spread \div 2]
         ELSE IF b.high >= t.take_profit
         THEN [hit_sl |-> FALSE, hit_tp |-> TRUE,
               exit_price |-> t.take_profit - spread \div 2]
         ELSE [hit_sl |-> FALSE, hit_tp |-> FALSE, exit_price |-> 0]
    ELSE IF b.high >= t.stop_loss
         THEN [hit_sl |-> TRUE, hit_tp |-> FALSE,
               exit_price |-> t.stop_loss + spread \div 2]
         ELSE IF b.low <= t.take_profit
         THEN [hit_sl |-> FALSE, hit_tp |-> TRUE,
               exit_price |-> t.take_profit + spread \div 2]
         ELSE [hit_sl |-> FALSE, hit_tp |-> FALSE, exit_price |-> 0]

\* (a variant that does not divide the risk amount by the stop distance)
SizedPnlFixedSize(t, exit_price, cap, risk) ==
    LET pnl == (exit_price - t.entry_price) * t.direction
        sl_dist == Abs(t.entry_price - t.stop_loss)
    IN  IF sl_dist > 0 THEN RMul(FromInt(pnl), RMul(risk, cap)) ELSE RZero

\* pnl scaled to capital via position sizing; 0 when the stop distance is 0.
SizedPnl(t, exit_price, cap, risk) ==
    LET pnl == (exit_price - t.entry_price) * t.direction
        risk_amount == RMul(risk, cap)
        sl_dist == Abs(t.entry_price - t.stop_loss)
    IN  IF sl_dist > 0
        THEN RMul(FromInt(pnl), RDiv(risk_amount, FromInt(sl_dist)))
        ELSE RZero

\* (a variant that forgets to record the exit index)
CloseTradeNoExitIdx(t, idx, exit_price, cap, risk) ==
    [t EXCEPT !.exit_price = exit_price,
              !.pnl = SizedPnl(t, exit_price, cap, risk), !.closed = TRUE]

\* The trade as closed at row idx for exit_price.
CloseTrade(t, idx, exit_price, cap, risk) ==
    [t EXCEPT !.exit_idx = idx, !.exit_price = exit_price,
              !.pnl = SizedPnl(t, exit_price, cap, risk), !.closed = TRUE]

\* (a variant that opens on a signal whether or not a position is open)
ShouldOpenOverPosition(slot, signal) == signal # 0

\* (a variant that opens on any signal value but SELL)
ShouldOpenNonNegative(slot, signal) == slot = None /\ signal >= 0

\* if open_trade is None and signal != 0
ShouldOpen(slot, signal) == slot = None /\ signal # 0

\* The trade opened on row b at index idx.
OpenTrade(b, idx, spread, sl_mult, tp_mult) ==
    LET direction == b.signal
        sl_dist == b.atr * sl_mult
        tp_dist == b.atr * tp_mult
    IN  IF direction = 1
        THEN LET entry_price == b.close + spread \div 2
             IN  Trade(idx, entry_price, direction,
                       entry_price - sl_dist, entry_price + tp_dist)
        ELSE LET entry_price == b.close - spread \div 2
             IN  Trade(idx, entry_price, direction,
                       entry_price + sl_dist, entry_price - tp_dist)

\* No generate_signals call in progress.
VCIdle ==
    /\ vc_pc = "idle"
    /\ vc_df = <<>>
    /\ vc_i = 0
    /\ in_squeeze = FALSE

\* No set_parameters call in progress.
SPIdle ==
    /\ sp_pc = "idle"
    /\ strategy = "none"
    /\ attrs = <<>>
    /\ current = <<>>
    /\ params = <<>>
    /\ sp_k = 0

\* No mean-reversion generate_signals call in progress.
MRIdle ==
    /\ mr_pc = "idle"
    /\ mr_df = <<>>

\* The registry is not being used.
RGIdle ==
    /\ rg_pc = "idle"
    /\ registry = <<>>
    /\ name = <<>>
    /\ instance = None

\* (a variant in which df.copy() hands back the frame itself)
FrameCopyShared(fs, src) == [obj |-> src, frames |-> fs]

\* df.copy(): a new frame object with the columns of the one copied.
FrameCopy(fs, src) == [obj |-> "copy", frames |-> [fs EXCEPT !["copy"] = fs[src]]]

\* df[col] = ...: the column is added to the object df is bound to.
SetColumns(fs, obj, cols) == [fs EXCEPT ![obj] = @ \cup cols]

\* No frame is being worked on.
FramesIdle ==
    /\ frames = [caller |-> {}, copy |-> {}]
    /\ df_obj = "caller"

\* The columns of a frame of candles (fetch_candles).
CandleColumns == {"time", "open", "high", "low", "close", "volume"}

\* A call is entered with df bound to the caller's frame, with these columns.
CalledWith(cols) ==
    /\ frames = [caller |-> cols, copy |-> {}]
    /\ df_obj = "caller"

\* run_backtest is entered; the frame's columns are one of column_sets.
InitFrom(column_sets) ==
    /\ VCIdle
    /\ SPIdle
    /\ MRIdle
    /\ RGIdle
    /\ \E cols \in column_sets : CalledWith(cols)
    /\ entry_capital = RZero
    /\ spread_pips \in SpreadPips
    /\ sl_atr_mult \in SlAtrMults
    /\ tp_atr_mult \in TpAtrMults
    /\ risk_pct \in RiskPcts
    /\ initial_capital \in InitialCapitals
    /\ n \in 0..MaxBars
    /\ pc = "start"
    /\ i = 1
    /\ bar \in (IF n = 0 THEN {NoBar} ELSE Bars)
    /\ n_signals = IF n = 0 THEN 0 ELSE Abs(bar.signal)
    /\ capital = RZero
    /\ equity_curve = <<>>
    /\ trades = <<>>
    /\ open_trade = None
    /\ result = None

\* run_backtest called on a frame with the documented columns.
Init == InitFrom(WellFormedColumns)

\* The atr column was computed by run_backtest itself (on its copy).
AtrComputed == df_obj = "copy"

\* A row the frame can hold at index idx: tr.rolling(period).mean() is NaN
\* on the first period - 1 rows.
AtrConsistent(b, idx) == (AtrComputed /\ idx < AtrPeriod - 1) => b.atr_na

\* The columns a row with a usable atr is read from.
RowColumns == {"close", "high", "low", "signal"}

\* The columns _compute_atr reads.
AtrInputColumns == {"high", "low", "close"}

\* Before the loop: atr is computed on a copy when the frame has none, and
\* the locals are set.
PrepareFrame ==
    /\ pc = "start"
    /\ IF "atr" \notin frames[df_obj]
       THEN /\ AtrInputColumns \subseteq frames[df_obj]
            /\ LET c == FrameCopy(frames, df_obj)
               IN  /\ df_obj' = c.obj
                   /\ frames' = SetColumns(c.frames, c.obj, {"atr"})
       ELSE UNCHANGED frame_vars
    /\ capital' = FromInt(initial_capital)
    /\ equity_curve' = <<FromInt(initial_capital)>>
    /\ trades' = <<>>
    /\ open_trade' = None
    /\ pc' = "loop"
    /\ UNCHANGED <<args, i, bar, n_signals, entry_capital, result>>
    /\ UNCHANGED <<vc_vars, sp_vars, mr_vars, rg_vars>>

\* A loop iteration on a row whose atr is NaN or 0.
SkipBar ==
    /\ pc = "loop"
    /\ i < n
    /\ \E b \in Bars :
        /\ AtrUnusable(b)
        /\ AtrConsistent(b, i)
        /\ bar' = b
        /\ n_signals' = n_signals + Abs(b.signal)
    /\ equity_curve' = Append(equity_curve, capital)
    /\ i' = i + 1
    /\ UNCHANGED <<args, pc, capital, trades, open_trade, entry_capital, result>>
    /\ UNCHANGED <<frame_vars, vc_vars, sp_vars, mr_vars, rg_vars>>

\* A loop iteration on a row with a usable atr: exit check, entry check,
\* equity-curve append.
TradeBar ==
    /\ pc = "loop"
    /\ i < n
    /\ RowColumns \subseteq frames[df_obj]
    /\ \E b \in Bars :
        /\ ~AtrUnusable(b)
        /\ AtrConsistent(b, i)
        /\ bar' = b
        /\ n_signals' = n_signals + Abs(b.signal)
        /\ LET spread == Spread(spread_pips)
               x == IF open_trade # None
                    THEN ExitCheck(open_trade, b, spread)
                    ELSE [hit_sl |-> FALSE, hit_tp |-> FALSE, exit_price |-> 0]
               hit == x.hit_sl \/ x.hit_tp
               closed == CloseTrade(open_trade, i, x.exit_price, capital, risk_pct)
               capital1 == IF hit THEN RAdd(capital, closed.pnl) ELSE capital
               trades1 == IF hit THEN Append(trades, closed) ELSE trades
               open1 == IF hit THEN None ELSE open_trade
           IN  /\ capital' = capital1
               /\ trades' = trades1
               /\ open_trade' =
                    IF ShouldOpen(open1, b.signal)
                    THEN OpenTrade(b, i, spread, sl_atr_mult, tp_atr_mult)
                    ELSE open1
               /\ entry_capital' =
                    IF ShouldOpen(open1, b.signal) THEN capital1 ELSE entry_capital
               /\ equity_curve' = Append(equity_curve, capital1)
    /\ i' = i + 1
    /\ UNCHANGED <<args, pc, result>>
    /\ UNCHANGED <<frame_vars, vc_vars, sp_vars, mr_vars, rg_vars>>

\* (a variant that takes half the spread off the last close)
ForceCloseWithSpread(t, last_idx, last_close, cap, risk) ==
    LET px == last_close - t.direction * (Spread(1) \div 2)
    IN  [t EXCEPT !.exit_idx = last_idx, !.exit_price = px,
                  !.pnl = SizedPnl(t, px, cap, risk), !.closed = TRUE]

\* The remaining open trade as closed at the last row's close.
ForceClose(t, last_idx, last_close, cap, risk) ==
    [t EXCEPT !.exit_idx = last_idx, !.exit_price = last_close,
              !.pnl = SizedPnl(t, last_close, cap, risk), !.closed = TRUE]

\* After the loop: close any remaining open trade at the last close.
CloseRemaining ==
    /\ pc = "loop"
    /\ i >= n
    /\ IF open_trade # None
       THEN LET closed == ForceClose(open_trade, n - 1, bar.close, capital, risk_pct)
            IN  /\ open_trade' = closed
                /\ capital' = RAdd(capital, closed.pnl)
                /\ trades' = Append(trades, closed)
       ELSE UNCHANGED <<open_trade, capital, trades>>
    /\ pc' = "metrics"
    /\ UNCHANGED <<args, i, bar, n_signals, equity_curve, entry_capital, result>>
    /\ UNCHANGED <<frame_vars, vc_vars, sp_vars, mr_vars, rg_vars>>

\* ------------------------------------------------------------------------
\* run_backtest: the metrics
\* ------------------------------------------------------------------------

RECURSIVE SumPnl(_)
SumPnl(ts) == IF ts = <<>> THEN RZero ELSE RAdd(ts[1].pnl, SumPnl(Tail(ts)))

\* (a variant that counts a trade with pnl 0 as a win)
WinsNonNegative(ts) == Cardinality({k \in 1..Len(ts) : ~RLess(ts[k].pnl, RZero)})

\* sum(1 for t in trades if t.pnl > 0)
Wins(ts) == Cardinality({k \in 1..Len(ts) : RLess(RZero, ts[k].pnl)})

\* np.diff(equity_curve) / np.array(equity_curve[:-1]); a zero divisor gives
\* inf or nan, which makes np.std nan and the Sharpe guard false.
ReturnsFinite(eq) == \A k \in 1..(Len(eq) - 1) : ~RIsZero(eq[k])
Returns(eq) ==
    [k \in 1..(Len(eq) - 1) |-> RDiv(RSub(eq[k + 1], eq[k]), eq[k])]

RECURSIVE RSum(_)
RSum(xs) == IF xs = <<>> THEN RZero ELSE RAdd(xs[1], RSum(Tail(xs)))

Mean(xs) == RDiv(RSum(xs), FromInt(Len(xs)))

\* np.std squared (population variance)
Variance(xs) ==
    LET m == Mean(xs)
    IN  Mean([k \in 1..Len(xs) |-> RMul(RSub(xs[k], m), RSub(xs[k], m))])

Sign(a) == IF a[1] > 0 THEN 1 ELSE IF a[1] < 0 THEN -1 ELSE 0

\* mean / std * sqrt(252), when len(returns) > 1 and std > 0
SharpeRatio(eq) ==
    IF Len(eq) - 1 > 1 /\ ReturnsFinite(eq)
    THEN LET r == Returns(eq)
             m == Mean(r)
             v == Variance(r)
         IN  IF RLess(RZero, v)
             THEN [sign |-> Sign(m),
                   sq |-> RDiv(RMul(FromInt(252), RMul(m, m)), v)]
             ELSE NoSharpe
    ELSE NoSharpe

\* The drawdown loop over equity_curve[k..], with the running peak and
\* maximum so far.
RECURSIVE DrawdownFrom(_, _, _, _)
DrawdownFrom(eq, k, peak, max_dd) ==
    IF k > Len(eq) THEN max_dd
    ELSE LET val == eq[k]
             peak1 == IF RLess(peak, val) THEN val ELSE peak
             dd == IF RLess(RZero, peak1)
                   THEN RDiv(RSub(peak1, val), peak1) ELSE RZero
         IN  DrawdownFrom(eq, k + 1, peak1,
                          IF RLess(max_dd, dd) THEN dd ELSE max_dd)

MaxDrawdown(eq) == DrawdownFrom(eq, 1, eq[1], RZero)

\* Python's round(x, ndigits) with scale = 10^ndigits: nearest, ties to even.
Round(x, scale) ==
    LET q == x[1] * scale
        fl == q \div x[2]
        twice == 2 * (q - fl * x[2])
        up == \/ twice > x[2]
              \/ (twice = x[2] /\ fl % 2 = 1)
    IN  Frac(IF up THEN fl + 1 ELSE fl, scale)

\* A price in price units as the number it stands for.
PriceOf(units) == Frac(units, 10000 * PipSize)

\* The dict of one trade in result.trades.
TradeDict(t) ==
    [entry_idx |-> t.entry_idx,
     entry_price |-> Round(PriceOf(t.entry_price), 100000),
     exit_idx |-> t.exit_idx,
     exit_price |-> Round(PriceOf(t.exit_price), 100000),
     direction |-> IF t.direction = 1 THEN "LONG" ELSE "SHORT",
     pnl |-> Round(t.pnl, 100),
     stop_loss |-> Round(PriceOf(t.stop_loss), 100000),
     take_profit |-> Round(PriceOf(t.take_profit), 100000)]

ComputeMetrics ==
    /\ pc = "metrics"
    /\ result' =
         IF trades # <<>>
         THEN [trades |-> [k \in 1..Len(trades) |-> TradeDict(trades[k])],
               equity_curve |-> equity_curve,
               win_rate |-> Frac(Wins(trades), Len(trades)),
               total_trades |-> Len(trades),
               total_pnl |-> SumPnl(trades),
               sharpe_ratio |-> SharpeRatio(equity_curve),
               max_drawdown |-> MaxDrawdown(equity_curve)]
         ELSE [BacktestResult EXCEPT !.total_trades = Len(trades),
                                     !.equity_curve = equity_curve]
    /\ pc' = "done"
    /\ UNCHANGED <<args, i, bar, n_signals, capital, equity_curve, trades,
                   open_trade, entry_capital>>
    /\ UNCHANGED <<frame_vars, vc_vars, sp_vars, mr_vars, rg_vars>>

Next == PrepareFrame \/ SkipBar \/ TradeBar \/ CloseRemaining \/ ComputeMetrics

Spec == Init /\ [][Next]_vars

\* run_backtest called on a frame with any of the columns.
InitAnyFrame == InitFrom(SUBSET AllColumns)

\* df has no atr column and _compute_atr reads a column df[...] does not
\* have: KeyError, after the copy was made.
KeyErrorInAtr ==
    /\ pc = "start"
    /\ "atr" \notin frames[df_obj]
    /\ ~(AtrInputColumns \subseteq frames[df_obj])
    /\ LET c == FrameCopy(frames, df_obj)
       IN  /\ df_obj' = c.obj
           /\ frames' = c.frames
    /\ pc' = "raised"
    /\ UNCHANGED <<args, i, bar, n_signals, capital, equity_curve, trades,
                   open_trade, entry_capital, result>>
    /\ UNCHANGED <<vc_vars, sp_vars, mr_vars, rg_vars>>

\* A loop iteration on a row with a usable atr reads a column df does not
\* have: KeyError.
KeyErrorInLoop ==
    /\ pc = "loop"
    /\ i < n
    /\ ~(RowColumns \subseteq frames[df_obj])
    /\ \E b \in Bars :
        /\ ~AtrUnusable(b)
        /\ AtrConsistent(b, i)
        /\ bar' = b
    /\ pc' = "raised"
    /\ UNCHANGED <<args, i, n_signals, capital, equity_curve, trades,
                   open_trade, entry_capital, result>>
    /\ UNCHANGED <<frame_vars, vc_vars, sp_vars, mr_vars, rg_vars>>

NextAnyFrame == Next \/ KeyErrorInAtr \/ KeyErrorInLoop

SpecAnyFrame == InitAnyFrame /\ [][NextAnyFrame]_vars

\* ------------------------------------------------------------------------
\* Properties of run_backtest
\* ------------------------------------------------------------------------

Last(seq) == seq[Len(seq)]

\* Half the spread, in price units.
HalfSpread == Spread(spread_pips) \div 2

\* The row touches both the stop and the target of trade t.
BothHit(t, b) ==
    IF t.direction = 1
    THEN b.low <= t.stop_loss /\ b.high >= t.take_profit
    ELSE b.high >= t.stop_loss /\ b.low <= t.take_profit

\* This step closes the open trade at its stop level moved by half the spread.
ClosedAtStop ==
    /\ Len(trades') = Len(trades) + 1
    /\ LET c == Last(trades')
       IN  /\ c.entry_idx = open_trade.entry_idx
           /\ c.closed
           /\ c.exit_idx = i
           /\ c.exit_price = open_trade.stop_loss - open_trade.direction * HalfSpread
           /\ (open_trade.stop_loss # open_trade.take_profit =>
                 c.exit_price # open_trade.take_profit - open_trade.direction * HalfSpread)

\* C1: for every input series, of any length including 0 and 1, the equity
\* curve returned has exactly one entry per bar and its first entry is
\* initial_capital.
C1_EquityCurvePerBar ==
    pc = "done" =>
        /\ Len(result.equity_curve) = n
        /\ Len(result.equity_curve) >= 1
        /\ result.equity_curve[1] = FromInt(initial_capital)

\* C2 (as stated): whenever a position is open and the row read satisfies both
\* the stop and the target condition, the step closes the trade at the
\* stop-loss level moved by half the spread, never at the take-profit level.
C2_StopPriorityEveryBar ==
    [][(pc = "loop" /\ i < n /\ open_trade # None /\ BothHit(open_trade, bar'))
         => ClosedAtStop]_vars

\* C2 (amended): the same on every row whose ATR is defined and nonzero; a
\* row with undefined or zero ATR is skipped and leaves the position open.
C2_StopPriority ==
    [][(pc = "loop" /\ i < n /\ open_trade # None /\ BothHit(open_trade, bar'))
         => IF AtrUnusable(bar')
            THEN open_trade' = open_trade /\ trades' = trades
            ELSE ClosedAtStop]_vars

\* C2 witness: the row just read has a usable ATR, touched both levels of
\* the trade that was open, and that trade sits in the ledger closed at
\* its stop level, which differs from its target level.
C2_Witness ==
    /\ pc = "loop" /\ i > 1 /\ ~AtrUnusable(bar)
    /\ trades # <<>>
    /\ LET c == Last(trades)
       IN  /\ c.exit_idx = i - 1
           /\ c.direction = -1
           /\ BothHit(c, bar)
           /\ c.stop_loss # c.take_profit
           /\ c.exit_price = c.stop_loss + HalfSpread

\* C3: at most one trade is open at any time and the ledger is a
\* chronologically ordered sequence of non-overlapping closed trades: every
\* ledger trade is closed with entry_idx <= exit_idx and an exit price set,
\* consecutive trades satisfy earlier.exit_idx <= later.entry_idx, and the
\* one trade still open starts no earlier than the last ledger trade ended.
C3_SinglePosition ==
    /\ \A k \in 1..Len(trades) :
        /\ trades[k].closed
        /\ 1 <= trades[k].entry_idx
        /\ trades[k].entry_idx <= trades[k].exit_idx
        /\ trades[k].exit_idx <= n - 1
        /\ trades[k].exit_price # Trade(0, 0, 1, 0, 0).exit_price
    /\ \A k \in 1..(Len(trades) - 1) :
        trades[k].exit_idx <= trades[k + 1].entry_idx
    /\ (open_trade # None /\ ~open_trade.closed) =>
          /\ \A k \in 1..Len(trades) : trades[k].exit_idx <= open_trade.entry_idx
          /\ open_trade.exit_idx = -1
    /\ pc = "done" =>
          /\ result.total_trades = Len(trades)
          /\ Len(result.trades) = Len(trades)
          /\ \A k \in 1..Len(trades) :
                /\ result.trades[k].entry_idx = trades[k].entry_idx
                /\ result.trades[k].exit_idx = trades[k].exit_idx

\* C3 witness: a returned ledger of two trades, the second entered on the
\* row on which the first was closed.
C3_Witness ==
    /\ pc = "done"
    /\ Len(result.trades) = 2
    /\ result.trades[1].exit_idx = result.trades[2].entry_idx
    /\ result.trades[1].entry_idx < result.trades[1].exit_idx

\* The sized pnl of a trade closed at exit_price when capital was cap:
\* pnl * |entry - stop| = (exit - entry) * direction * risk_pct * cap, and
\* pnl = 0 when the stop distance is 0.
PnlMatches(t, cap) ==
    LET dist == Abs(t.entry_price - t.stop_loss)
    IN  IF dist = 0 THEN t.pnl = RZero
        ELSE RMul(t.pnl, FromInt(dist)) =
             RMul(FromInt((t.exit_price - t.entry_price) * t.direction),
                  RMul(risk_pct, cap))

C5_NoSignalNoTrade ==
    n_signals = 0 =>
        /\ trades = <<>> /\ open_trade = None
        /\ \A k \in 1..Len(equity_curve) : equity_curve[k] = FromInt(initial_capital)
        /\ pc = "done" =>
            /\ result.total_trades = 0
            /\ result.trades = <<>>
            /\ result.equity_curve = equity_curve
            /\ result.max_drawdown = RZero
            /\ result.sharpe_ratio = NoSharpe
            /\ result.total_pnl = RZero

\* C5 witness: a finished run over three rows, all with signal 0, one of
\* them with a usable ATR and a wide range.
C5_Witness ==
    /\ pc = "done"
    /\ n = 3
    /\ n_signals = 0
    /\ ~AtrUnusable(bar)
    /\ bar.low < bar.high
    /\ Len(result.equity_curve) = 3

\* How many trades of the ledger have a strictly positive pnl.
RECURSIVE PositivePnlCount(_)
PositivePnlCount(ts) ==
    IF ts = <<>> THEN 0
    ELSE (IF ts[1].pnl[1] > 0 THEN 1 ELSE 0) + PositivePnlCount(Tail(ts))

\* C13: win_rate = (number of ledger trades with pnl > 0) / total_trades
\* when total_trades > 0, and win_rate = 0 when total_trades = 0; a trade
\* with pnl exactly 0 is not a win.
C13_WinRate ==
    pc = "done" =>
        IF result.total_trades > 0
        THEN /\ result.total_trades = Len(trades)
             /\ result.win_rate[1] * result.total_trades =
                    PositivePnlCount(trades) * result.win_rate[2]
             /\ (\A k \in 1..Len(trades) : trades[k].pnl[1] <= 0) =>
                    result.win_rate = RZero
        ELSE result.win_rate = RZero

\* C13 witness: a returned ledger of two trades, one closed at a profit and
\* one with pnl exactly 0 although its stop distance is not 0: win_rate 1/2.
C13_Witness ==
    /\ pc = "done"
    /\ result.total_trades = 2
    /\ result.win_rate = <<1, 2>>
    /\ \E k \in 1..2 :
        /\ trades[k].pnl = RZero
        /\ trades[k].entry_price # trades[k].stop_loss
    /\ \E k \in 1..2 : RLess(RZero, trades[k].pnl)

\* The position held after this step was opened on row idx in the
\* direction of that row's signal.
OpenedOn(b, idx) ==
    /\ open_trade' # None
    /\ ~open_trade'.closed
    /\ open_trade'.entry_idx = idx
    /\ open_trade'.direction = b.signal

\* This step reads a row (the row is bar', its index i).
ReadsRow == pc = "loop" /\ i < n /\ i' = i + 1

\* C15: the entry check is made on every row, the first (index 0) included:
\* on a row whose ATR is defined and nonzero, if no trade is open after the
\* row's exit check (one closed on this very row included) and the row's
\* signal is nonzero, a position is opened on that row in the direction of
\* the signal, with entry_idx the row's index.
C15_EntryOnEveryBar ==
    [][/\ (pc = "start" /\ n >= 1 /\ "atr" \in frames.caller
           /\ ~AtrUnusable(bar) /\ bar.signal # 0)
          => OpenedOn(bar, 0)
       /\ (ReadsRow /\ ~AtrUnusable(bar') /\ bar'.signal # 0
           /\ (open_trade = None \/ Len(trades') > Len(trades)))
          => OpenedOn(bar', i)]_vars

\* The row's levels are touched by its low/high.
Breached(t, b) ==
    IF t.direction = 1
    THEN b.low <= t.stop_loss \/ b.high >= t.take_profit
    ELSE b.high >= t.stop_loss \/ b.low <= t.take_profit

\* C16: on a row whose ATR is undefined or zero no trade logic runs: an open
\* position is neither stopped out nor closed at target, no position is
\* opened, capital is unchanged, and exactly one entry, the current capital,
\* is appended to the equity curve.
C16_SkipBarDoesNothing ==
    [][(ReadsRow /\ (bar'.atr_na \/ bar'.atr = 0)) =>
          /\ open_trade' = open_trade
          /\ trades' = trades
          /\ capital' = capital
          /\ equity_curve' = Append(equity_curve, capital)]_vars

\* C16 witness: the row just read has ATR 0, a nonzero signal and a range
\* that breaches a level of the position opened on an earlier row; the
\* position is still open and the curve got one entry for the row.
C16_Witness ==
    /\ pc = "loop" /\ i > 2
    /\ ~bar.atr_na /\ bar.atr = 0
    /\ bar.signal # 0
    /\ open_trade # None
    /\ ~open_trade.closed
    /\ open_trade.entry_idx < i - 1
    /\ Breached(open_trade, bar)
    /\ Len(equity_curve) = i
    /\ Last(equity_curve) = capital

\* C17: the realized pnl of every closed trade (stop, target or force-close)
\* is (exit_price - entry_price) * direction * (risk_pct * capital when the
\* trade was opened) / |entry_price - stop_loss| when the stop distance is
\* nonzero, and 0 when it is zero; the capital read at exit time is the
\* capital of the time the trade was opened.
C17_RealizedPnl ==
    [][Len(trades') = Len(trades) + 1 =>
          LET c == Last(trades')
          IN  /\ c.closed
              /\ c.entry_idx = open_trade.entry_idx
              /\ PnlMatches(c, entry_capital)
              /\ capital = entry_capital
              /\ capital' = RAdd(capital, c.pnl)]_vars

\* C17 witness: the second trade of a returned ledger was opened after the
\* first changed capital, and closed with a nonzero pnl.
C17_Witness ==
    /\ pc = "done"
    /\ Len(trades) = 2
    /\ entry_capital # FromInt(initial_capital)
    /\ ~RIsZero(trades[1].pnl)
    /\ ~RIsZero(trades[2].pnl)
    /\ trades[2].entry_price # trades[2].stop_loss

\* C17, second witness: a trade with stop distance 0 was closed away from
\* its entry price with pnl 0.
C17_ZeroStopDistanceReached ==
    /\ trades # <<>>
    /\ Last(trades).entry_price = Last(trades).stop_loss
    /\ Last(trades).exit_price # Last(trades).entry_price
    /\ Last(trades).pnl = RZero

\* This step opens a position.
Opens == open_trade' # None /\ open_trade' # open_trade /\ ~open_trade'.closed

\* The levels of the position opened by this step, for a spread given in
\* price units.
OpenedAt(spread) ==
    LET t == open_trade'
        d == t.direction
    IN  /\ d = bar'.signal
        /\ t.entry_price = bar'.close + d * (spread \div 2)
        /\ t.stop_loss = t.entry_price - d * bar'.atr * sl_atr_mult
        /\ t.take_profit = t.entry_price + d * bar'.atr * tp_atr_mult
        /\ (bar'.atr > 0 /\ sl_atr_mult > 0 /\ tp_atr_mult > 0) =>
              IF d = 1
              THEN t.stop_loss < t.entry_price /\ t.entry_price < t.take_profit
              ELSE t.take_profit < t.entry_price /\ t.entry_price < t.stop_loss

\* The spread argument read as a number of quoted price units (1.0 is
\* 10000 pips of a 4-digit pair).
SpreadAsPrice == spread_pips * 10000 * PipSize

\* C18: a position is opened at the row's close moved by half the configured
\* spread, the configured value taken in quoted price units with no pip
\* conversion inside the engine (long: close + spread/2, short: close -
\* spread/2); stop_loss = entry - direction * ATR * stop multiplier,
\* take_profit = entry + direction * ATR * target multiplier; with positive
\* ATR and multipliers a long has stop < entry < target and a short has
\* target < entry < stop.
C18_EntryLevels ==
    [][Opens => OpenedAt(SpreadAsPrice)]_vars

\* The level of t the row touches first in the order the exit check looks
\* at them (stop, then target), or 0 when it touches neither.
TouchedLevel(t, b) ==
    IF t.direction = 1
    THEN IF b.low <= t.stop_loss THEN t.stop_loss
         ELSE IF b.high >= t.take_profit THEN t.take_profit ELSE 0
    ELSE IF b.high >= t.stop_loss THEN t.stop_loss
         ELSE IF b.low <= t.take_profit THEN t.take_profit ELSE 0

\* What C19 says of a step that reads a row while a position is open.
ExitChecked ==
          IF Breached(open_trade, bar')
          THEN /\ Len(trades') = Len(trades) + 1
               /\ LET c == Last(trades')
                  IN  /\ c.entry_idx = open_trade.entry_idx
                      /\ c.exit_idx = i
                      /\ c.exit_price =
                            TouchedLevel(open_trade, bar') - c.direction * HalfSpread
                      /\ capital' = RAdd(capital, c.pnl)
                      /\ Last(equity_curve') = capital'
                      /\ Opens => entry_capital' = capital'
          ELSE /\ trades' = trades
               /\ open_trade' = open_trade
               /\ capital' = capital

\* C19 (as stated): an open position is closed on a row exactly when the row
\* touches or breaches a level (long: low <= stop_loss or high >=
\* take_profit; short: high >= stop_loss or low <= take_profit); the exit
\* price is that level moved by half the spread against the position,
\* whatever the row's close; capital is increased by the trade's pnl on that
\* row, before the entry check and before the row's equity-curve entry is
\* appended.
C19_ExitCheckEveryBar ==
    [][(ReadsRow /\ open_trade # None) => ExitChecked]_vars

\* C19 (amended): the same on every row whose ATR is defined and nonzero; a
\* row with undefined or zero ATR leaves the position open even when its
\* range touches a level.
C19_ExitCheck ==
    [][(ReadsRow /\ open_trade # None) =>
          IF bar'.atr_na \/ bar'.atr = 0
          THEN open_trade' = open_trade /\ trades' = trades
          ELSE ExitChecked]_vars

\* C19 witness: the row just read closed a short at its target, above the
\* row's close, with a gain that is in the row's equity-curve entry, and a
\* new position was opened on the same row.
C19_Witness ==
    /\ pc = "loop" /\ i > 2
    /\ trades # <<>>
    /\ LET c == Last(trades)
       IN  /\ c.exit_idx = i - 1
           /\ c.direction = -1
           /\ c.exit_price = c.take_profit + HalfSpread
           /\ c.exit_price # bar.close
           /\ HalfSpread > 0
           /\ RLess(RZero, c.pnl)
           /\ Last(equity_curve) = capital
           /\ equity_curve[Len(equity_curve) - 1] = RSub(capital, c.pnl)
    /\ open_trade # None
    /\ open_trade.entry_idx = i - 1

\* The sum of the pnl values of the returned ledger.
RECURSIVE LedgerPnlSum(_)
LedgerPnlSum(ds) ==
    IF ds = <<>> THEN RZero ELSE RAdd(ds[1].pnl, LedgerPnlSum(Tail(ds)))

\* C21: the values of the returned BacktestResult are not rounded: each
\* ledger trade's entry_price, exit_price, stop_loss, take_profit and pnl
\* are the values the simulation computed, so the ledger's pnl values sum
\* to total_pnl exactly.
C21_NoRounding ==
    pc = "done" =>
        /\ Len(result.trades) = Len(trades)
        /\ \A k \in 1..Len(trades) :
            /\ result.trades[k].entry_price = PriceOf(trades[k].entry_price)
            /\ result.trades[k].exit_price = PriceOf(trades[k].exit_price)
            /\ result.trades[k].stop_loss = PriceOf(trades[k].stop_loss)
            /\ result.trades[k].take_profit = PriceOf(trades[k].take_profit)
            /\ result.trades[k].pnl = trades[k].pnl
        /\ LedgerPnlSum(result.trades) = result.total_pnl

\* C24: a nonzero signal on a row where a position is open and is not closed
\* by the row's exit check (the row touches no level, or its ATR is
\* undefined or zero so that no exit check is made) is discarded: the
\* position, its direction, stop and target are unchanged and nothing is
\* added to the ledger; the signal is not remembered: a position opened by
\* a later row is opened on that row's own nonzero signal, in its direction;
\* and a trade is never examined for stop/target on its own entry row: a
\* position opened on a row is still open after that row, and a trade the
\* loop closes was opened on an earlier row.
C24_SignalWhileOpenDiscarded ==
    [][ReadsRow =>
          /\ (/\ open_trade # None
               /\ bar'.signal # 0
               /\ \/ bar'.atr_na
                  \/ bar'.atr = 0
                  \/ ~Breached(open_trade, bar'))
              => /\ open_trade' = open_trade
                 /\ trades' = trades
                 /\ capital' = capital
          /\ (open_trade' # None /\ open_trade' # open_trade)
              => /\ bar'.signal # 0
                 /\ open_trade'.direction = bar'.signal
                 /\ open_trade'.entry_idx = i
                 /\ ~open_trade'.closed
                 /\ open_trade = None \/ Len(trades') = Len(trades) + 1
          /\ Len(trades') > Len(trades)
              => /\ Last(trades').entry_idx < i
                 /\ Last(trades').exit_idx = i]_vars

\* C24 witness: the row just read has a usable ATR, touches no level of the
\* position opened on an earlier row and carries the opposite signal; the
\* position is still open with the levels it was opened with.
C24_Witness ==
    /\ pc = "loop" /\ i > 2
    /\ ~bar.atr_na /\ bar.atr # 0
    /\ open_trade # None
    /\ ~open_trade.closed
    /\ open_trade.entry_idx < i - 1
    /\ bar.signal = -open_trade.direction
    /\ ~Breached(open_trade, bar)
    /\ Len(trades) = 0

\* C24, second witness: the row just read opened a position and its range
\* touches the stop of that very position, which is still open.
C24_EntryRowNotExamined ==
    /\ pc = "loop" /\ i > 1
    /\ open_trade # None
    /\ ~open_trade.closed
    /\ open_trade.entry_idx = i - 1
    /\ open_trade.stop_loss # open_trade.entry_price
    /\ Breached(open_trade, bar)

\* C23: at the end of every run the equity curve is consistent with the
\* ledger: its last value is initial_capital plus total_pnl, the pnl of a
\* trade force-closed at the final row included, so max_drawdown and
\* sharpe_ratio are computed from a curve that holds every trade counted in
\* total_trades.
C23_EquityMatchesLedger ==
    pc = "done" =>
        /\ result.equity_curve # <<>>
        /\ Last(result.equity_curve) =
              RAdd(FromInt(initial_capital), result.total_pnl)
        /\ result.total_trades > 0 =>
              /\ result.max_drawdown =
                    MaxDrawdown(Append(equity_curve, capital))
              /\ Last(result.equity_curve) = capital

\* C25: with initial_capital > 0, 0 < risk_pct < 1, spread >= 0 and positive
\* ATR multipliers, capital stays strictly positive after any sequence of
\* rows: every equity-curve entry is > 0 and the returned max_drawdown lies
\* in [0, 1).
C25_CapitalStaysPositive ==
    (/\ pc \in {"loop", "metrics", "done"}
     /\ initial_capital > 0
     /\ RLess(RZero, risk_pct) /\ RLess(risk_pct, FromInt(1))
     /\ spread_pips >= 0
     /\ sl_atr_mult > 0 /\ tp_atr_mult > 0)
    => /\ RLess(RZero, capital)
       /\ \A k \in 1..Len(equity_curve) : RLess(RZero, equity_curve[k])
       /\ pc = "done" =>
             /\ ~RLess(result.max_drawdown, RZero)
             /\ RLess(result.max_drawdown, FromInt(1))

\* The frame passed is empty or lacks a required column.
Malformed == n = 0 \/ ~(RequiredColumns \subseteq frames.caller)

\* C12: an empty price series, or one missing a required column (open, high,
\* low, close, signal), is a precondition violation: run_backtest raises
\* before simulating any row and never returns a BacktestResult for it.
C12_PreconditionChecked ==
    Malformed =>
        /\ pc \in {"start", "raised"}
        /\ i = 1
        /\ result = None

\* ------------------------------------------------------------------------
\* VolatilityContractionStrategy.generate_signals
\* ------------------------------------------------------------------------

\* self.squeeze_percentile, self.atr_percentile as constructed
SqueezePercentile == 20
AtrPercentile == 25

\* The close of every row, and the Bollinger band pairs <<bb_lower, bb_upper>>
\* around it: close above the upper band, close on the upper band, close
\* below the lower band.
VCClose == 10
BandPairs == {<<6, 9>>, <<8, 10>>, <<11, 14>>}

\* The pairs <<bb_width_pct, atr_pct>> of percentile ranks of a row.
PctPairs == {<<20, 25>>, <<21, 25>>, <<20, 26>>}

\* A cell of a float column: NaN (na, the value then unused) or a number.
NaN == [na |-> TRUE, v |-> 0]
Num(x) == [na |-> FALSE, v |-> x]

\* Comparisons of float cells: any comparison with NaN is False.
Le(a, b) == ~a.na /\ ~b.na /\ a.v <= b.v
Gt(a, b) == ~a.na /\ ~b.na /\ a.v > b.v
\* (a variant of < that reads the number held in a NaN cell)
LtIgnoringNaN(a, b) == a.v < b.v
Lt(a, b) == ~a.na /\ ~b.na /\ a.v < b.v
Ge(a, b) == ~a.na /\ ~b.na /\ a.v >= b.v

\* ((bb_width_pct <= squeeze_percentile) & (atr_pct <= atr_percentile)).astype(int)
Squeeze(bb_width_pct, atr_pct) ==
    IF Le(bb_width_pct, Num(SqueezePercentile)) /\ Le(atr_pct, Num(AtrPercentile))
    THEN 1 ELSE 0

\* A row after the indicator, squeeze and signal columns were added.
VCRow(close, bb_lower, bb_upper, bb_width_pct, atr_pct) ==
    [close |-> close, bb_lower |-> bb_lower, bb_upper |-> bb_upper,
     bb_width_pct |-> bb_width_pct, atr_pct |-> atr_pct,
     squeeze |-> Squeeze(bb_width_pct, atr_pct), signal |-> 0]

\* Rows before the rolling windows have filled: no bands yet (and so no
\* band-width rank), or bands but no percentile ranks yet.
WarmupRowsNoBands == {VCRow(Num(VCClose), NaN, NaN, NaN, NaN)}
WarmupRowsNoRanks ==
    {VCRow(Num(VCClose), Num(b[1]), Num(b[2]), NaN, NaN) : b \in BandPairs}
\* Rows with every indicator defined.
FullRows ==
    {VCRow(Num(VCClose), Num(b[1]), Num(b[2]), Num(q[1]), Num(q[2])) :
        b \in BandPairs, q \in PctPairs}

SeqsOf(S, len) == [1..len -> S]

\* df is one of the frames generate_signals works on: undefined indicators
\* form a prefix of at most one row without bands and one without ranks.
IsVCFrame(df) ==
    \E len \in 0..MaxRows : \E la \in 0..1 : \E lb \in 0..1 :
        /\ la + lb <= len
        /\ \E a \in SeqsOf(WarmupRowsNoBands, la) :
           \E b \in SeqsOf(WarmupRowsNoRanks, lb) :
           \E c \in SeqsOf(FullRows, len - la - lb) :
              df = a \o b \o c

\* No run_backtest call in progress.
EngineIdle ==
    /\ spread_pips = 0 /\ sl_atr_mult = 0 /\ tp_atr_mult = 0
    /\ risk_pct = RZero /\ initial_capital = 0 /\ n = 0
    /\ pc = "idle" /\ i = 0 /\ bar = NoBar /\ n_signals = 0
    /\ capital = RZero /\ equity_curve = <<>> /\ trades = <<>>
    /\ open_trade = None /\ entry_capital = RZero /\ result = None

\* generate_signals is entered on a frame of candles; vc_df holds its rows
\* with the values the indicator, squeeze and signal columns get.
VCInit ==
    /\ EngineIdle
    /\ SPIdle
    /\ MRIdle
    /\ RGIdle
    /\ CalledWith(CandleColumns)
    /\ vc_pc = "start"
    /\ IsVCFrame(vc_df)
    /\ vc_i = 1
    /\ in_squeeze = FALSE

\* The columns generate_signals adds.
VCColumns ==
    {"bb_middle", "bb_upper", "bb_lower", "bb_width", "atr", "squeeze", "signal"}

\* generate_signals up to the loop: the frame is copied, the indicator and
\* squeeze columns are computed on the copy, signal is 0 everywhere.
VCPrepare ==
    /\ vc_pc = "start"
    /\ LET c == FrameCopy(frames, df_obj)
       IN  /\ df_obj' = c.obj
           /\ frames' = SetColumns(c.frames, c.obj, VCColumns)
    /\ vc_pc' = "loop"
    /\ UNCHANGED <<vc_df, vc_i, in_squeeze>>
    /\ UNCHANGED <<engine_vars, sp_vars, mr_vars, rg_vars>>

\* (a variant that keeps in_squeeze set after a signal)
BreakoutNoReset(in_sq, prev, row) ==
    LET in1 == in_sq \/ prev.squeeze = 1
    IN  IF in1 /\ row.squeeze = 0
        THEN IF Gt(row.close, row.bb_upper)
             THEN [signal |-> 1, in_squeeze |-> in1]
             ELSE IF Lt(row.close, row.bb_lower)
             THEN [signal |-> -1, in_squeeze |-> in1]
             ELSE [signal |-> row.signal, in_squeeze |-> in1]
        ELSE [signal |-> row.signal, in_squeeze |-> in1]

\* (a variant that does not look at the row's own squeeze flag)
BreakoutAnyRow(in_sq, prev, row) ==
    LET in1 == in_sq \/ prev.squeeze = 1
    IN  IF in1
        THEN IF Gt(row.close, row.bb_upper)
             THEN [signal |-> 1, in_squeeze |-> FALSE]
             ELSE IF Lt(row.close, row.bb_lower)
             THEN [signal |-> -1, in_squeeze |-> FALSE]
             ELSE [signal |-> row.signal, in_squeeze |-> in1]
        ELSE [signal |-> row.signal, in_squeeze |-> in1]

\* One iteration of the signal loop on row (df.iloc[i]) after prev
\* (df.iloc[i - 1]): the row's signal and the in_squeeze flag afterwards.
Breakout(in_sq, prev, row) ==
    LET in1 == in_sq \/ prev.squeeze = 1
    IN  IF in1 /\ row.squeeze = 0
        THEN IF Gt(row.close, row.bb_upper)
             THEN [signal |-> 1, in_squeeze |-> FALSE]
             ELSE IF Lt(row.close, row.bb_lower)
             THEN [signal |-> -1, in_squeeze |-> FALSE]
             ELSE [signal |-> row.signal, in_squeeze |-> in1]
        ELSE [signal |-> row.signal, in_squeeze |-> in1]

\* for i in range(1, len(df)): one iteration
VCStep ==
    /\ vc_pc = "loop"
    /\ vc_i < Len(vc_df)
    /\ LET r == Breakout(in_squeeze, vc_df[vc_i], vc_df[vc_i + 1])
       IN  /\ vc_df' = [vc_df EXCEPT ![vc_i + 1].signal = r.signal]
           /\ in_squeeze' = r.in_squeeze
    /\ vc_i' = vc_i + 1
    /\ UNCHANGED <<vc_pc, engine_vars, frame_vars, sp_vars, mr_vars, rg_vars>>

\* return df
VCReturn ==
    /\ vc_pc = "loop"
    /\ vc_i >= Len(vc_df)
    /\ vc_pc' = "done"
    /\ UNCHANGED <<vc_df, vc_i, in_squeeze>>
    /\ UNCHANGED <<engine_vars, frame_vars, sp_vars, mr_vars, rg_vars>>

VCNext == VCPrepare \/ VCStep \/ VCReturn

SpecVC == VCInit /\ [][VCNext]_vars

\* ------------------------------------------------------------------------
\* Properties of generate_signals (volatility contraction)
\* ------------------------------------------------------------------------

\* Rows (1-based) whose signal has been decided: all of them once the loop
\* is over, rows 1..vc_i while it runs.
Decided == 1..(IF vc_pc = "done" THEN Len(vc_df) ELSE vc_i)

\* C6: a nonzero signal is emitted on row i only if the row is the one
\* right after the end of a contiguous squeeze run (squeeze[i-1] = 1 and
\* squeeze[i] = 0); a later non-squeezed row of the same release fires none.
C6_SignalOnlyOnReleaseBar ==
    \A j \in 1..Len(vc_df) :
        vc_df[j].signal # 0 =>
            /\ j > 1
            /\ vc_df[j - 1].squeeze = 1
            /\ vc_df[j].squeeze = 0

\* C7: between any two rows with a nonzero signal there is a squeezed row
\* strictly after the first and strictly before the second.
C7_SqueezeBetweenSignals ==
    \A a \in 1..Len(vc_df) : \A b \in (a + 1)..Len(vc_df) :
        (vc_df[a].signal # 0 /\ vc_df[b].signal # 0) =>
            \E m \in (a + 1)..(b - 1) : vc_df[m].squeeze = 1

\* C7 witness: the finished frame holds two nonzero signals.
C7_Witness ==
    /\ vc_pc = "done"
    /\ \E a \in 1..Len(vc_df) : \E b \in (a + 1)..Len(vc_df) :
        vc_df[a].signal # 0 /\ vc_df[b].signal # 0

\* Some row at or before j is squeezed, and from the first squeezed row on
\* every row is.
NeverReleases ==
    /\ \E m \in 1..Len(vc_df) : vc_df[m].squeeze = 1
    /\ \A m \in 1..Len(vc_df) : \A k \in m..Len(vc_df) :
        vc_df[m].squeeze = 1 => vc_df[k].squeeze = 1

\* C8: no nonzero signal on a row whose squeeze flag is 1, nor on a row
\* before the first squeezed row; a squeeze that never releases yields no
\* signal at all; a signal is BUY only if close > upper band and SELL only
\* if close < lower band on that row.
C8_NoSignalInSqueeze ==
    /\ \A j \in 1..Len(vc_df) :
        /\ vc_df[j].signal \in {-1, 0, 1}
        /\ vc_df[j].signal # 0 =>
            /\ vc_df[j].squeeze = 0
            /\ \E m \in 1..(j - 1) : vc_df[m].squeeze = 1
        /\ vc_df[j].signal = 1 =>
            /\ ~vc_df[j].bb_upper.na
            /\ vc_df[j].close.v > vc_df[j].bb_upper.v
        /\ vc_df[j].signal = -1 =>
            /\ ~vc_df[j].bb_lower.na
            /\ vc_df[j].close.v < vc_df[j].bb_lower.v
    /\ NeverReleases => \A j \in 1..Len(vc_df) : vc_df[j].signal = 0

\* C8 witness: the finished frame holds a BUY and a SELL.
C8_Witness ==
    /\ vc_pc = "done"
    /\ \E j \in 1..Len(vc_df) : vc_df[j].signal = 1
    /\ \E j \in 1..Len(vc_df) : vc_df[j].signal = -1

\* A squeeze that lasts to the end of a frame of at least three rows has
\* been run through.
C8_NeverReleasesReached ==
    vc_pc = "done" /\ NeverReleases /\ Len(vc_df) >= 3 /\ vc_df[1].squeeze = 0

\* ------------------------------------------------------------------------
\* set_parameters (BaseStrategy, and MeanReversionStrategy's override)
\* ------------------------------------------------------------------------

\* Python values: t is the type, v the number held (an int; a float in
\* tenths; 0/1 for a bool), s the text of a str.
IntV(k) == [t |-> "int", v |-> k, s |-> ""]
FloatV(tenths) == [t |-> "float", v |-> tenths, s |-> ""]
BoolV(b) == [t |-> "bool", v |-> IF b THEN 1 ELSE 0, s |-> ""]
StrV(text) == [t |-> "str", v |-> 0, s |-> text]
NoneV == [t |-> "NoneType", v |-> 0, s |-> ""]

\* The values a request may carry for a parameter.
Texts == {"yes", "YES", "True", "1", "no", "7", "2.5", "abc"}
ParamValues ==
    {IntV(7), IntV(0), FloatV(25), BoolV(FALSE), NoneV} \cup {StrV(x) : x \in Texts}

\* str.lower() on Texts
Lower(text) ==
    IF text = "YES" THEN "yes" ELSE IF text = "True" THEN "true" ELSE text

\* The int a text is a literal of, if any (int(str)).
IntLiteral(text) ==
    IF text = "7" THEN [ok |-> TRUE, v |-> 7]
    ELSE IF text = "1" THEN [ok |-> TRUE, v |-> 1]
    ELSE [ok |-> FALSE, v |-> 0]

\* The float, in tenths, a text is a literal of, if any (float(str)).
FloatLiteral(text) ==
    IF text = "7" THEN [ok |-> TRUE, v |-> 70]
    ELSE IF text = "1" THEN [ok |-> TRUE, v |-> 10]
    ELSE IF text = "2.5" THEN [ok |-> TRUE, v |-> 25]
    ELSE [ok |-> FALSE, v |-> 0]

\* Integer division truncating toward zero (int(float)).
Trunc(a, b) == IF a >= 0 THEN a \div b ELSE -((-a) \div b)

Raised == [raised |-> TRUE, value |-> NoneV]
Ok(value) == [raised |-> FALSE, value |-> value]

\* int(value)
ToInt(value) ==
    CASE value.t = "int" -> Ok(IntV(value.v))
      [] value.t = "bool" -> Ok(IntV(value.v))
      [] value.t = "float" -> Ok(IntV(Trunc(value.v, 10)))
      [] value.t = "str" ->
            IF IntLiteral(value.s).ok THEN Ok(IntV(IntLiteral(value.s).v)) ELSE Raised
      [] OTHER -> Raised

\* float(value)
ToFloat(value) ==
    CASE value.t = "int" -> Ok(FloatV(value.v * 10))
      [] value.t = "bool" -> Ok(FloatV(value.v * 10))
      [] value.t = "float" -> Ok(FloatV(value.v))
      [] value.t = "str" ->
            IF FloatLiteral(value.s).ok THEN Ok(FloatV(FloatLiteral(value.s).v)) ELSE Raised
      [] OTHER -> Raised

\* bool(value): truthiness
ToBool(value) ==
    CASE value.t = "str" -> Ok(BoolV(value.s # ""))
      [] value.t = "NoneType" -> Ok(BoolV(FALSE))
      [] OTHER -> Ok(BoolV(value.v # 0))

\* expected_type(value), as BaseStrategy.set_parameters applies it
CoerceBase(expected_type, value) ==
    CASE expected_type = "int" -> ToInt(value)
      [] expected_type = "float" -> ToFloat(value)
      [] expected_type = "bool" -> ToBool(value)
      [] OTHER -> Raised

\* (a variant without the override's branch for bool parameters)
CoerceMeanReversionTruthiness(expected_type, value) ==
    CoerceBase(expected_type, value)

\* MeanReversionStrategy.set_parameters: a bool parameter given a str is
\* true when its lower-cased text is "true", "1" or "yes".
CoerceMeanReversion(expected_type, value) ==
    IF expected_type = "bool"
    THEN IF value.t = "str"
         THEN Ok(BoolV(Lower(value.s) \in {"true", "1", "yes"}))
         ELSE ToBool(value)
    ELSE CoerceBase(expected_type, value)

\* The coercion the instance's class applies.
Coerce(cls, expected_type, value) ==
    IF cls = "mean_reversion"
    THEN CoerceMeanReversion(expected_type, value)
    ELSE CoerceBase(expected_type, value)

\* __init__ of the two strategies
MeanReversionDefaults ==
    [rsi_period |-> IntV(14), rsi_oversold |-> IntV(30), rsi_overbought |-> IntV(70),
     use_bollinger |-> BoolV(TRUE), bb_period |-> IntV(20), bb_std |-> FloatV(20)]
VolatilityContractionDefaults ==
    [bb_period |-> IntV(20), bb_std |-> FloatV(20), atr_period |-> IntV(14),
     squeeze_percentile |-> IntV(20), atr_percentile |-> IntV(25),
     lookback |-> IntV(50)]

Defaults(cls) ==
    IF cls = "mean_reversion" THEN MeanReversionDefaults
    ELSE VolatilityContractionDefaults

\* The keys requests are tried with, per strategy; "colour" is no parameter.
RequestKeys(cls) ==
    IF cls = "mean_reversion"
    THEN {"rsi_period", "use_bollinger", "bb_std", "colour"}
    ELSE {"lookback", "bb_std", "colour"}

\* items is list(d.items()) of some dict d: no key twice.
IsDictItems(items) ==
    \A a \in 1..Len(items) : \A b \in 1..Len(items) :
        a # b => items[a][1] # items[b][1]

\* set_parameters is entered on a fresh instance: current = get_parameters().
SPInit ==
    /\ EngineIdle
    /\ FramesIdle
    /\ VCIdle
    /\ MRIdle
    /\ RGIdle
    /\ sp_pc = "loop"
    /\ strategy \in {"mean_reversion", "volatility_contraction"}
    /\ attrs = Defaults(strategy)
    /\ current = attrs
    /\ \E len \in 0..MaxParams :
        \E items \in [1..len -> RequestKeys(strategy) \X ParamValues] :
            /\ IsDictItems(items)
            /\ params = items
    /\ sp_k = 0

\* One iteration of `for key, value in params.items()`.
SPStep ==
    /\ sp_pc = "loop"
    /\ sp_k < Len(params)
    /\ LET key == params[sp_k + 1][1]
           value == params[sp_k + 1][2]
       IN  IF key \notin DOMAIN current \/ key \notin DOMAIN attrs
           THEN UNCHANGED <<attrs, sp_pc>>
           ELSE LET r == Coerce(strategy, current[key].t, value)
                IN  IF r.raised
                    THEN sp_pc' = "raised" /\ UNCHANGED attrs
                    ELSE attrs' = [attrs EXCEPT ![key] = r.value]
                         /\ UNCHANGED sp_pc
    /\ sp_k' = sp_k + 1
    /\ UNCHANGED <<strategy, current, params>>
    /\ UNCHANGED <<engine_vars, frame_vars, vc_vars, mr_vars, rg_vars>>

\* The loop is over: set_parameters returns None.
SPReturn ==
    /\ sp_pc = "loop"
    /\ sp_k >= Len(params)
    /\ sp_pc' = "returned"
    /\ UNCHANGED <<strategy, attrs, current, params, sp_k>>
    /\ UNCHANGED <<engine_vars, frame_vars, vc_vars, mr_vars, rg_vars>>

SPNext == SPStep \/ SPReturn

SpecParams == SPInit /\ [][SPNext]_vars

\* ------------------------------------------------------------------------
\* Properties of set_parameters
\* ------------------------------------------------------------------------

\* The item of the mapping with this key, if any.
HasKey(key) == \E k \in 1..Len(params) : params[k][1] = key
ValueOf(key) == (CHOOSE k \in 1..Len(params) : params[k][1] = key)

\* C9: if a provided value for a known parameter cannot be coerced, the
\* call raises and no parameter of the strategy has changed.
C9_AllOrNothing ==
    /\ sp_pc = "raised" => attrs = current
    /\ sp_pc = "returned" =>
         \A k \in 1..Len(params) :
            params[k][1] \in DOMAIN current =>
               ~Coerce(strategy, current[params[k][1]].t, params[k][2]).raised

TruthyExact(text) == text \in {"true", "1", "yes"}
TruthyAnyCase(text) == Lower(text) \in {"true", "1", "yes"}

\* What the claim says of a parameter p after a call that returned; the
\* text of a bool parameter is compared with or without regard to case.
MergedAs(p, any_case) ==
    IF ~HasKey(p) THEN attrs[p] = current[p]
    ELSE LET value == params[ValueOf(p)][2]
         IN  /\ attrs[p].t = current[p].t
             /\ value.t = current[p].t => attrs[p] = value
             /\ (current[p].t = "bool" /\ value.t = "str") =>
                   attrs[p] = BoolV(IF any_case THEN TruthyAnyCase(value.s)
                                    ELSE TruthyExact(value.s))
             /\ (current[p].t = "bool" /\ value.t \in {"int", "float"}) =>
                   attrs[p] = BoolV(value.v # 0)
             /\ (current[p].t = "int" /\ value = FloatV(25)) => attrs[p] = IntV(2)
             /\ (current[p].t = "int" /\ value = StrV("7")) => attrs[p] = IntV(7)
             /\ (current[p].t = "int" /\ value = BoolV(FALSE)) => attrs[p] = IntV(0)
             /\ (current[p].t = "float" /\ value = IntV(7)) => attrs[p] = FloatV(70)
             /\ (current[p].t = "float" /\ value = StrV("2.5")) => attrs[p] = FloatV(25)

\* Keys that are no parameter raise nothing and create no attribute.
UnknownKeysIgnored ==
    /\ DOMAIN attrs = DOMAIN current
    /\ sp_pc = "raised" =>
         /\ sp_k >= 1
         /\ params[sp_k][1] \in DOMAIN current

\* C10 (as stated): a permissive merge: every provided key that is a
\* parameter is coerced to the type of the parameter's current value and
\* assigned, a bool parameter given a string becoming true exactly for
\* "true"/"1"/"yes" and false for any other string; other keys are ignored
\* without error; parameters not named keep their value.
C10_PermissiveMergeExact ==
    /\ UnknownKeysIgnored
    /\ sp_pc = "returned" => \A p \in DOMAIN attrs : MergedAs(p, FALSE)

\* C10 (amended): the same, the text of a bool parameter being compared
\* without regard to case ("YES", "True" are true as well).
C10_PermissiveMerge ==
    /\ UnknownKeysIgnored
    /\ sp_pc = "returned" => \A p \in DOMAIN attrs : MergedAs(p, TRUE)

\* C10 witness: a call on a mean-reversion strategy has returned after a
\* mapping with an unknown key and the text "no" for use_bollinger, which
\* was true before the call and is false now; rsi_period, not named, is as
\* it was.
C10_Witness ==
    /\ sp_pc = "returned"
    /\ strategy = "mean_reversion"
    /\ HasKey("colour")
    /\ HasKey("use_bollinger")
    /\ params[ValueOf("use_bollinger")][2] = StrV("no")
    /\ current.use_bollinger = BoolV(TRUE)
    /\ attrs.use_bollinger = BoolV(FALSE)
    /\ attrs.rsi_period = current.rsi_period

\* ------------------------------------------------------------------------
\* MeanReversionStrategy.generate_signals
\* ------------------------------------------------------------------------

\* The rsi of a row (NaN while the ewm has too few rows, or on 0/0), its
\* Bollinger bands <<bb_lower, bb_upper>> (NaN while the rolling window is
\* not full) and its close.
RsiCells == {NaN, Num(20), Num(30), Num(80)}
MRBands == {<<NaN, NaN>>, <<Num(8), Num(12)>>}
MRCloses == {8, 10, 12}

\* A row after the rsi, band and signal columns were added.
MRRows ==
    {[close |-> Num(c), rsi |-> r, bb_lower |-> b[1], bb_upper |-> b[2],
      signal |-> 0] : c \in MRCloses, r \in RsiCells, b \in MRBands}

\* The columns generate_signals adds.
MRColumns == {"rsi", "bb_middle", "bb_upper", "bb_lower", "signal"}

\* The pairs <<rsi_oversold, rsi_overbought>> the strategy may have been given
\* by set_parameters: the defaults, and a pair with oversold above overbought.
RsiThresholds == {<<30, 70>>, <<70, 20>>}

\* generate_signals is entered on a frame of candles by a strategy with
\* use_bollinger on or off; mr_df holds the frame's rows with the values the
\* rsi, band and signal columns get.
MRInit ==
    /\ EngineIdle
    /\ VCIdle
    /\ RGIdle
    /\ CalledWith(CandleColumns)
    /\ sp_pc = "idle"
    /\ strategy = "mean_reversion"
    /\ \E u \in BOOLEAN : \E th \in RsiThresholds :
        attrs = [MeanReversionDefaults EXCEPT !.use_bollinger = BoolV(u),
                                              !.rsi_oversold = IntV(th[1]),
                                              !.rsi_overbought = IntV(th[2])]
    /\ current = <<>>
    /\ params = <<>>
    /\ sp_k = 0
    /\ mr_pc = "start"
    /\ \E len \in 0..MaxMRRows : mr_df \in [1..len -> MRRows]

\* buy_cond and sell_cond of a row
BuyCond(self, row) ==
    /\ Lt(row.rsi, Num(self.rsi_oversold.v))
    /\ self.use_bollinger = BoolV(TRUE) => Le(row.close, row.bb_lower)
\* (a variant that asks for a close strictly above the upper band)
SellCondAboveBand(self, row) ==
    /\ Gt(row.rsi, Num(self.rsi_overbought.v))
    /\ self.use_bollinger = BoolV(TRUE) => Gt(row.close, row.bb_upper)
SellCond(self, row) ==
    /\ Gt(row.rsi, Num(self.rsi_overbought.v))
    /\ self.use_bollinger = BoolV(TRUE) => Ge(row.close, row.bb_upper)

\* df = df.copy(); the rsi and band columns are computed on the copy;
\* df["signal"] = 0
MRPrepare ==
    /\ mr_pc = "start"
    /\ LET c == FrameCopy(frames, df_obj)
       IN  /\ df_obj' = c.obj
           /\ frames' = SetColumns(c.frames, c.obj, MRColumns)
    /\ mr_pc' = "buy"
    /\ UNCHANGED mr_df
    /\ UNCHANGED <<engine_vars, vc_vars, sp_vars, rg_vars>>

\* df.loc[buy_cond, "signal"] = 1
MRBuy ==
    /\ mr_pc = "buy"
    /\ mr_df' = [k \in 1..Len(mr_df) |->
                    IF BuyCond(attrs, mr_df[k])
                    THEN [mr_df[k] EXCEPT !.signal = 1] ELSE mr_df[k]]
    /\ mr_pc' = "sell"
    /\ UNCHANGED <<engine_vars, frame_vars, vc_vars, sp_vars, rg_vars>>

\* df.loc[sell_cond, "signal"] = -1; return df
MRSell ==
    /\ mr_pc = "sell"
    /\ mr_df' = [k \in 1..Len(mr_df) |->
                    IF SellCond(attrs, mr_df[k])
                    THEN [mr_df[k] EXCEPT !.signal = -1] ELSE mr_df[k]]
    /\ mr_pc' = "done"
    /\ UNCHANGED <<engine_vars, frame_vars, vc_vars, sp_vars, rg_vars>>

MRNext == MRPrepare \/ MRBuy \/ MRSell

SpecMR == MRInit /\ [][MRNext]_vars

\* One call of run_backtest or of either strategy's generate_signals.
InitCalls == Init \/ VCInit \/ MRInit
NextCalls == Next \/ VCNext \/ MRNext
SpecCalls == InitCalls /\ [][NextCalls]_vars

\* ------------------------------------------------------------------------
\* Properties of the three calls
\* ------------------------------------------------------------------------

\* C14: generate_signals of both strategies and run_backtest leave the
\* caller's frame as it was: no step adds a column to it, and every write
\* of a signal cell goes to the copy the name df was rebound to.
C14_InputUnchanged ==
    [][/\ frames'.caller = frames.caller
       /\ (vc_df' # vc_df \/ mr_df' # mr_df) => df_obj = "copy"]_vars

\* C14 witness: the mean-reversion generate_signals has returned a frame
\* with a BUY in its signal column; the caller's frame still has the
\* candle columns only.
C14_Witness ==
    /\ mr_pc = "done"
    /\ \E k \in 1..Len(mr_df) : mr_df[k].signal = 1
    /\ df_obj = "copy"
    /\ MRColumns \subseteq frames.copy
    /\ frames.caller = CandleColumns

\* C14, second witness: run_backtest has returned after computing atr on a
\* copy of a frame that had none.
C14_EngineCopyReached ==
    /\ pc = "done"
    /\ df_obj = "copy"
    /\ frames.caller = RequiredColumns
    /\ frames.copy = AllColumns

\* No row of the mean-reversion frame has a nonzero signal while an
\* indicator its rule reads (rsi; the bands when use_bollinger is on) is NaN.
MRUndefinedSilent ==
    \A k \in 1..Len(mr_df) :
        mr_df[k].signal # 0 =>
            /\ ~mr_df[k].rsi.na
            /\ attrs.use_bollinger = BoolV(TRUE) =>
                  ~mr_df[k].bb_lower.na /\ ~mr_df[k].bb_upper.na

\* No row of the volatility-contraction frame has a nonzero signal while a
\* band or a percentile rank is NaN.
VCUndefinedSilent ==
    \A j \in 1..Len(vc_df) :
        vc_df[j].signal # 0 =>
            /\ ~vc_df[j].bb_lower.na /\ ~vc_df[j].bb_upper.na
            /\ ~vc_df[j].bb_width_pct.na /\ ~vc_df[j].atr_pct.na

\* The bar loop neither opens nor closes a trade on a row whose atr is NaN.
LoopUndefinedSilent ==
    (ReadsRow /\ bar'.atr_na) => (open_trade' = open_trade /\ trades' = trades)

\* This step is the one after the loop, made when the final row's atr is NaN.
AfterLoopOnUndefined == pc = "loop" /\ pc' = "metrics" /\ n >= 1 /\ bar.atr_na

\* C20 (as stated): undefined indicator values never trigger a trade
\* decision: both strategies emit signal 0 on every row where an indicator
\* their rule reads is undefined, and the engine neither opens nor closes a
\* trade on a row whose ATR is undefined.
C20_UndefinedNeverTradesAnyBar ==
    [][/\ MRUndefinedSilent'
       /\ VCUndefinedSilent'
       /\ LoopUndefinedSilent
       /\ AfterLoopOnUndefined => trades' = trades]_vars

\* C20 (amended): the same, the engine's part being about the bar loop: the
\* position left open after the loop is closed at the final row whether or
\* not that row's ATR is defined.
C20_UndefinedNeverTrades ==
    [][/\ MRUndefinedSilent'
       /\ VCUndefinedSilent'
       /\ LoopUndefinedSilent
       /\ (AfterLoopOnUndefined /\ open_trade # None) =>
             /\ Len(trades') = Len(trades) + 1
             /\ Last(trades').exit_idx = n - 1]_vars

\* C20 witness: the row just read by the bar loop has a NaN atr, a nonzero
\* signal and a range that breaches a level of the open position; the
\* position is still open and the ledger is empty.
C20_Witness ==
    /\ pc = "loop" /\ i > 2
    /\ bar.atr_na
    /\ bar.signal # 0
    /\ open_trade # None
    /\ ~open_trade.closed
    /\ open_trade.entry_idx < i - 1
    /\ Breached(open_trade, bar)
    /\ trades = <<>>

\* C20, second witness: the mean-reversion generate_signals has returned a
\* frame with a signal on one row and none on a row whose rsi is NaN and
\* whose close is on the lower band.
C20_UndefinedRsiReached ==
    /\ mr_pc = "done"
    /\ \E k \in 1..Len(mr_df) : mr_df[k].signal # 0
    /\ \E k \in 1..Len(mr_df) :
        /\ mr_df[k].rsi.na
        /\ Le(mr_df[k].close, mr_df[k].bb_lower)
        /\ mr_df[k].signal = 0

\* C20, third witness: the volatility-contraction generate_signals has
\* returned a frame with a signal on one row and none on a row without
\* percentile ranks whose close is above the upper band.
C20_UndefinedRankReached ==
    /\ vc_pc = "done"
    /\ \E j \in 1..Len(vc_df) : vc_df[j].signal # 0
    /\ \E j \in 1..Len(vc_df) :
        /\ vc_df[j].atr_pct.na
        /\ Gt(vc_df[j].close, vc_df[j].bb_upper)
        /\ vc_df[j].signal = 0

\* The rule's two conditions on a row, as C22 words them.
RuleBuy(row) ==
    /\ Lt(row.rsi, Num(attrs.rsi_oversold.v))
    /\ attrs.use_bollinger.v = 1 => Le(row.close, row.bb_lower)
RuleSell(row) ==
    /\ Gt(row.rsi, Num(attrs.rsi_overbought.v))
    /\ attrs.use_bollinger.v = 1 => Ge(row.close, row.bb_upper)

\* The band columns exist in the returned frame, and every signal is -1, 0
\* or 1.
BandsAndSignalsWellFormed ==
    /\ {"bb_upper", "bb_middle", "bb_lower"} \subseteq frames[df_obj]
    /\ \A k \in 1..Len(mr_df) : mr_df[k].signal \in {-1, 0, 1}

\* C22 (as stated): for every row and every parameter setting the signal is
\* BUY when RSI < rsi_oversold (and close <= lower band if use_bollinger is
\* on), SELL when RSI > rsi_overbought (and close >= upper band if
\* use_bollinger is on), HOLD otherwise; it is always in {-1, 0, 1}, and the
\* band columns are computed whether or not use_bollinger is on.
C22_MeanReversionRuleAnySetting ==
    mr_pc = "done" =>
        /\ BandsAndSignalsWellFormed
        /\ \A k \in 1..Len(mr_df) :
            /\ RuleBuy(mr_df[k]) => mr_df[k].signal = 1
            /\ RuleSell(mr_df[k]) => mr_df[k].signal = -1
            /\ (~RuleBuy(mr_df[k]) /\ ~RuleSell(mr_df[k])) => mr_df[k].signal = 0

\* C22 (amended): the same, with SELL taking precedence on a row that meets
\* both conditions (possible when rsi_oversold > rsi_overbought).
C22_MeanReversionRule ==
    mr_pc = "done" =>
        /\ BandsAndSignalsWellFormed
        /\ \A k \in 1..Len(mr_df) :
            mr_df[k].signal =
                IF RuleSell(mr_df[k]) THEN -1
                ELSE IF RuleBuy(mr_df[k]) THEN 1 ELSE 0

\* C22 witness: with use_bollinger on and the default thresholds the returned
\* frame holds a BUY on a row whose close is on the lower band and a SELL on
\* a row whose close is on the upper band.
C22_Witness ==
    /\ mr_pc = "done"
    /\ attrs.use_bollinger = BoolV(TRUE)
    /\ attrs.rsi_oversold.v < attrs.rsi_overbought.v
    /\ \E k \in 1..Len(mr_df) :
        mr_df[k].signal = 1 /\ mr_df[k].close = mr_df[k].bb_lower
    /\ \E k \in 1..Len(mr_df) :
        mr_df[k].signal = -1 /\ mr_df[k].close = mr_df[k].bb_upper

\* C22, second witness: with rsi_oversold above rsi_overbought a row meets
\* both conditions and the returned frame has SELL on it.
C22_BothConditionsReached ==
    /\ mr_pc = "done"
    /\ \E k \in 1..Len(mr_df) :
        RuleBuy(mr_df[k]) /\ RuleSell(mr_df[k]) /\ mr_df[k].signal = -1

\* ------------------------------------------------------------------------
\* The strategy registry: register_strategy, get_strategy
\* ------------------------------------------------------------------------

\* A str is the sequence of its characters.
UpperChars == <<"A", "B", "C", "D", "E", "F", "G", "H", "I", "J", "K", "L", "M", "N", "O", "P", "Q", "R", "S", "T", "U", "V", "W", "X", "Y", "Z">>
LowerChars == <<"a", "b", "c", "d", "e", "f", "g", "h", "i", "j", "k", "l", "m", "n", "o", "p", "q", "r", "s", "t", "u", "v", "w", "x", "y", "z">>

IsUpper(c) == \E k \in 1..Len(UpperChars) : UpperChars[k] = c
IsLower(c) == \E k \in 1..Len(LowerChars) : LowerChars[k] = c
LowerChar(c) ==
    IF IsUpper(c) THEN LowerChars[CHOOSE k \in 1..Len(UpperChars) : UpperChars[k] = c]
    ELSE c
UpperChar(c) ==
    IF IsLower(c) THEN UpperChars[CHOOSE k \in 1..Len(LowerChars) : LowerChars[k] = c]
    ELSE c

\* str.lower(), str.upper(), str.replace(old, new) for one-character old, new
StrLower(text) == [k \in 1..Len(text) |-> LowerChar(text[k])]
StrUpper(text) == [k \in 1..Len(text) |-> UpperChar(text[k])]
StrReplace(text, old, new) ==
    [k \in 1..Len(text) |-> IF text[k] = old THEN new ELSE text[k]]

\* The strategy classes of the package, in the order pkgutil.iter_modules
\* yields their modules, and their name attributes.
StrategyClasses == <<"MeanReversionStrategy", "VolatilityContractionStrategy">>
ClassName(cls) ==
    IF cls = "MeanReversionStrategy"
    THEN <<"M", "e", "a", "n", " ", "R", "e", "v", "e", "r", "s", "i", "o", "n">>
    ELSE <<"V", "o", "l", "a", "t", "i", "l", "i", "t", "y", " ", "C", "o", "n", "t", "r", "a", "c", "t", "i", "o", "n">>

\* key = cls.name.lower().replace(" ", "_")
RegistryKey(cls) == StrReplace(StrLower(ClassName(cls)), " ", "_")

\* cls(): a fresh instance with the parameters __init__ sets.
NewInstance(cls) ==
    [cls |-> cls,
     attrs |-> IF cls = "MeanReversionStrategy" THEN MeanReversionDefaults
               ELSE VolatilityContractionDefaults]

\* The character with its case changed, or a space for an underscore and
\* an underscore for a space.
FlipChar(c) ==
    IF c = " " THEN "_" ELSE IF c = "_" THEN " "
    ELSE IF IsUpper(c) THEN LowerChar(c) ELSE UpperChar(c)
FlipAt(text, p) == IF p = 0 THEN text ELSE [text EXCEPT ![p] = FlipChar(@)]

\* Spellings of a registry key that differ from it only in letter case or in
\* spaces for underscores: up to two characters changed, all upper case, and
\* the class's name attribute itself.
Spellings(cls) ==
    LET key == RegistryKey(cls)
    IN  {FlipAt(FlipAt(key, p), q) : p, q \in 0..Len(key)}
        \cup {StrUpper(key), StrUpper(ClassName(cls)), ClassName(cls)}

\* Names of no strategy.
UnknownNames == {<<>>, <<"m", "e", "a", "n">>, <<"m", "o", "m", "e", "n", "t", "u", "m">>}

LookupNames ==
    UNION {Spellings(StrategyClasses[k]) : k \in 1..Len(StrategyClasses)}
    \cup UnknownNames

\* get_strategy(name) is entered in a process that has imported no strategy
\* module yet.
RGInit ==
    /\ EngineIdle
    /\ FramesIdle
    /\ VCIdle
    /\ SPIdle
    /\ MRIdle
    /\ rg_pc = "discover"
    /\ registry = <<>>
    /\ name \in LookupNames
    /\ instance = None

\* The classes whose module _auto_discover has not imported yet.
NotImported ==
    {k \in 1..Len(StrategyClasses) : RegistryKey(StrategyClasses[k]) \notin DOMAIN registry}

\* _auto_discover imports the next module; its class decorator runs
\* register_strategy(cls): _registry[key] = cls.
ImportModule ==
    /\ rg_pc = "discover"
    /\ NotImported # {}
    /\ LET k == CHOOSE m \in NotImported : \A o \in NotImported : m <= o
           cls == StrategyClasses[k]
       IN  registry' = (RegistryKey(cls) :> cls) @@ registry
    /\ UNCHANGED <<rg_pc, name, instance>>
    /\ UNCHANGED <<engine_vars, frame_vars, vc_vars, sp_vars, mr_vars>>

\* cls = _registry.get(name); raise ValueError if None, else return cls()
GetStrategy ==
    /\ rg_pc = "discover"
    /\ NotImported = {}
    /\ IF name \in DOMAIN registry
       THEN /\ instance' = NewInstance(registry[name])
            /\ rg_pc' = "returned"
       ELSE /\ rg_pc' = "raised"
            /\ UNCHANGED instance
    /\ UNCHANGED <<registry, name>>
    /\ UNCHANGED <<engine_vars, frame_vars, vc_vars, sp_vars, mr_vars>>

RGNext == ImportModule \/ GetStrategy

SpecRegistry == RGInit /\ [][RGNext]_vars

\* ------------------------------------------------------------------------
\* Properties of the registry
\* ------------------------------------------------------------------------

\* name.lower().replace(" ", "_")
Normalized(text) == StrReplace(StrLower(text), " ", "_")

\* The registered classes whose key the name spells.
Spelled(text) ==
    {k \in 1..Len(StrategyClasses) :
        Normalized(text) = RegistryKey(StrategyClasses[k])}

\* C11: get_strategy called with any spelling of a registered strategy's
\* name that differs only in letter case or in spaces versus underscores
\* returns a fresh instance of that strategy with default parameters; a name
\* matching no registered strategy raises the unknown-strategy error.
C11_NormalizedLookup ==
    rg_pc \in {"returned", "raised"} =>
        IF Spelled(name) # {}
        THEN /\ rg_pc = "returned"
             /\ \E k \in Spelled(name) : instance = NewInstance(StrategyClasses[k])
        ELSE rg_pc = "raised"

TypeOK ==
    /\ pc \in {"idle", "start", "loop", "metrics", "raised", "done"}
    /\ vc_pc \in {"idle", "start", "loop", "done"}
    /\ i \in 0..(MaxBars + 1)
    /\ in_squeeze \in BOOLEAN

====
